---- MODULE Spec2Model ----
(***************************************************************************)
(* Model of the bulk sender (src/index.js): the recipient parser, the      *)
(* /api/send handler with its dispatch loop, the session gateway           *)
(* sendMessage, the readiness flag with its lifecycle callbacks, the       *)
(* readiness-gated GET handlers, and extractGroupContacts.                 *)
(*                                                                         *)
(* Strings are sequences of one-character strings, so that the regular     *)
(* expressions of the source (strip non-digits, split on comma/newline,    *)
(* trim, the validator pattern) are computed character by character.       *)
(***************************************************************************)
EXTENDS Integers, Sequences, FiniteSets, TLC

----------------------------------------------------------------------------
(* Bounds of the model. *)

\* longest explicit numbers[] list a request carries
MaxList == 2
\* most data rows (after the header row) of an uploaded spreadsheet
MaxRows == 2
\* Math.random() is drawn from {0/RandRes, ..., (RandRes-1)/RandRes}
RandRes == 4
\* delaySeconds is held in units of 1/Scale second
Scale == 2

(* Program constants. *)

\* validatePhoneNumber: \d{10,15}
MinDigits == 10
MaxDigits == 15
\* dispatch loop: delaySeconds > 3, and the lower end of the random delay
MinDelay == 3

----------------------------------------------------------------------------
(* Characters and strings. *)

Digit == {"0", "1", "2", "3", "4", "5", "6", "7", "8", "9"}
WhiteSpace == {" ", "\n", "\t", "\r"}
DigitChar == <<"0", "1", "2", "3", "4", "5", "6", "7", "8", "9">>

Range(s) == {s[k] : k \in 1..Len(s)}

\* String.prototype.trim
RECURSIVE TrimLeft(_)
TrimLeft(s) ==
    IF s # <<>> /\ Head(s) \in WhiteSpace THEN TrimLeft(Tail(s)) ELSE s

RECURSIVE TrimRight(_)
TrimRight(s) ==
    IF s # <<>> /\ s[Len(s)] \in WhiteSpace
    THEN TrimRight(SubSeq(s, 1, Len(s) - 1))
    ELSE s

Trim(s) == TrimRight(TrimLeft(s))

\* (variant: the pattern also keeps '+', /[^0-9+]/g)
StripNonDigitsKeepPlus(s) == SelectSeq(s, LAMBDA c : c \in Digit \cup {"+"})

\* s.replace(/[^0-9]/g, '')
StripNonDigits(s) == SelectSeq(s, LAMBDA c : c \in Digit)

\* s.split(/[\n,]/)
RECURSIVE SplitText(_)
SplitText(s) ==
    LET seps == {k \in 1..Len(s) : s[k] \in {"\n", ","}}
    IN  IF seps = {}
        THEN <<s>>
        ELSE LET k == CHOOSE m \in seps : \A n \in seps : m <= n
             IN  <<SubSeq(s, 1, k - 1)>> \o SplitText(SubSeq(s, k + 1, Len(s)))

\* s.includes(sub)
Includes(s, sub) ==
    \E k \in 0..(Len(s) - Len(sub)) : SubSeq(s, k + 1, k + Len(sub)) = sub

\* String(n) / n.toString() of a non-negative integer held as its decimal digits
NumberToString(n) == [k \in 1..Len(n) |-> DigitChar[n[k] + 1]]

\* [...new Set(list)]: first occurrences, in insertion order
RECURSIVE Dedupe(_)
Dedupe(list) ==
    IF list = <<>>
    THEN <<>>
    ELSE LET front == Dedupe(SubSeq(list, 1, Len(list) - 1))
             last == list[Len(list)]
         IN  IF last \in Range(front) THEN front ELSE Append(front, last)

\* list.map(f)
Map(list, f(_)) == [k \in 1..Len(list) |-> f(list[k])]

\* list.filter(p)
Filter(list, p(_)) == SelectSeq(list, p)

----------------------------------------------------------------------------
(* Recipient parser. *)

\* A spreadsheet cell value: a string, a number (a non-negative integer,
\* held as its decimal digits), or anything else (null, a date, a formula
\* object).
StringCell(s) == [t |-> "string", v |-> s]
NumberCell(n) == [t |-> "number", v |-> n]
OtherCell == [t |-> "other", v |-> <<>>]

\* String(cellValue), phoneNumber.toString()
CellToString(c) == IF c.t = "number" THEN NumberToString(c.v) ELSE c.v

\* /^\+?\d{10,15}$/
validatePhoneNumber(number) ==
    LET body == IF number # <<>> /\ Head(number) = "+" THEN Tail(number) ELSE number
    IN  /\ Len(body) >= MinDigits
        /\ Len(body) <= MaxDigits
        /\ \A k \in 1..Len(body) : body[k] \in Digit

\* The rows of worksheet.eachRow with rowNumber > 1, column A.
DataRows(sheet) == SubSeq(sheet.rows, 2, Len(sheet.rows))

\* extractNumbersFromExcel: [] when the workbook cannot be read or has no
\* sheet; else the trimmed column-A values the validator accepts, in row
\* order, duplicates kept.
extractNumbersFromExcel(sheet) ==
    IF ~sheet.readable
    THEN <<>>
    ELSE LET typed == Filter(DataRows(sheet), LAMBDA c : c.t \in {"string", "number"})
             strs == Map(typed, LAMBDA c : Trim(CellToString(c)))
         IN  Filter(strs, validatePhoneNumber)

\* The spreadsheet branch of parsePhoneNumbers (taken when req.file is set).
parseSheetNumbers(sheet) ==
    LET typed == Filter(DataRows(sheet),
                        LAMBDA c : c.t \in {"string", "number"} /\ c.v # <<>>
                                   /\ ~(c.t = "number" /\ c.v = <<0>>))
        clean == Map(typed, LAMBDA c : IF c.t = "string"
                                       THEN StripNonDigits(c.v)
                                       ELSE CellToString(c))
    IN  Filter(clean, LAMBDA n : n # <<>>)

NoFile == [present |-> FALSE, readable |-> FALSE, rows |-> <<>>]

parsePhoneNumbers(reqFile, numbers, numbersText) ==
    LET fromSheet == IF reqFile.present THEN parseSheetNumbers(reqFile) ELSE <<>>
        fromList == IF numbers.isArray /\ Len(numbers.v) > 0
                    THEN Filter(Map(numbers.v, LAMBDA n : StripNonDigits(Trim(n))),
                                LAMBDA n : n # <<>>)
                    ELSE <<>>
        fromText == IF numbersText # <<>>
                    THEN Filter(Map(SplitText(numbersText),
                                    LAMBDA n : StripNonDigits(Trim(n))),
                                LAMBDA n : n # <<>>)
                    ELSE <<>>
    IN  Dedupe(fromSheet \o fromList \o fromText)

----------------------------------------------------------------------------
(* Request inputs. *)

SeqsUpTo(S, n) == UNION {[1..k -> S] : k \in 0..n}

\* "+1 555-000-1111"
RawPlusDashed == <<"+", "1", " ", "5", "5", "5", "-", "0", "0", "0", "-", "1", "1", "1", "1">>
\* "5550002222"
RawPlain == <<"5", "5", "5", "0", "0", "0", "2", "2", "2", "2">>
\* " - " (nothing left after stripping)
RawJunk == <<" ", "-", " ">>
\* "+15550001111"
RawPlus == <<"+", "1", "5", "5", "5", "0", "0", "0", "1", "1", "1", "1">>
\* "555-0002" (the validator rejects it)
RawShort == <<"5", "5", "5", "-", "0", "0", "0", "2">>
\* "+1 555-000-1111, 5550002222\n5550002222"
ExampleText ==
    RawPlusDashed \o <<",", " ">> \o RawPlain \o <<"\n">> \o RawPlain
\* ",\n" (separators only)
SeparatorText == <<",", "\n">>
\* "Phone"
HeaderCell == StringCell(<<"P", "h", "o", "n", "e">>)

RawCandidates == {RawPlusDashed, RawPlain, RawJunk}
TextBlocks == {<<>>, ExampleText, SeparatorText}
DataCells ==
    {StringCell(RawPlus), StringCell(RawPlain), StringCell(RawShort),
     NumberCell(<<5, 5, 5, 0, 0, 0, 2, 2, 2, 2>>), OtherCell}

\* req.files['excel']: no upload, an unreadable upload, or a workbook whose
\* first sheet has a header row and up to MaxRows data rows.
ExcelUploads ==
    {NoFile, [present |-> TRUE, readable |-> FALSE, rows |-> <<>>]}
    \cup {[present |-> TRUE, readable |-> TRUE, rows |-> <<HeaderCell>> \o r] :
            r \in SeqsUpTo(DataCells, MaxRows)}

\* req.body.numbers: absent, or the array of the numbers[] fields
NumbersFields ==
    {[isArray |-> FALSE, v |-> <<>>]}
    \cup {[isArray |-> TRUE, v |-> l] : l \in SeqsUpTo(RawCandidates, MaxList) \ {<<>>}}

AbsentNumbers == [isArray |-> FALSE, v |-> <<>>]

\* The three recipient sources of a request: every spreadsheet with and
\* without an explicit list and a text block, and every list and text block
\* without a spreadsheet.
RecipientInputs ==
    {[excel |-> e, numbers |-> n, numbersText |-> t] :
        e \in ExcelUploads,
        n \in {AbsentNumbers, [isArray |-> TRUE, v |-> <<RawPlusDashed>>]},
        t \in {<<>>, ExampleText}}
    \cup {[excel |-> NoFile, numbers |-> n, numbersText |-> t] :
            n \in NumbersFields, t \in TextBlocks}

\* req.body.delaySeconds in units of 1/Scale second: the default 1, 3, the
\* first value above 3, and 5
DelayValues == {Scale, MinDelay * Scale, MinDelay * Scale + 1, 5 * Scale}

\* A request: whether the body is multipart (only then can files be
\* attached), whether message is non-empty, whether a media file is
\* attached, delaySeconds, and the recipient sources.
Requests ==
    {r \in [multipart : BOOLEAN, message : BOOLEAN, media : BOOLEAN,
            delaySeconds : DelayValues, src : RecipientInputs] :
        r.multipart \/ (~r.src.excel.present /\ ~r.media)}

NoRequest ==
    [multipart |-> TRUE, message |-> FALSE, media |-> FALSE, delaySeconds |-> Scale,
     src |-> [excel |-> NoFile, numbers |-> AbsentNumbers, numbersText |-> <<>>]]

----------------------------------------------------------------------------
(* State. *)

VARIABLES
    isClientReady,  \* let isClientReady
    job,            \* per /api/send request slot: the handler's locals and position
    get             \* the GET request being handled: its locals and position

JobIds == {1}

NoResponse == [status |-> 0, numbersCount |-> 0, mediaAttached |-> FALSE]

IdleJob ==
    [pc |-> "idle",
     req |-> NoRequest,       \* the request being handled
     ready |-> FALSE,         \* isClientReady as the handler read it
     res |-> NoResponse,
     numbers |-> <<>>,
     delaySeconds |-> Scale,
     mediaPath |-> FALSE,
     i |-> 0,
     results |-> <<>>,
     formattedNumber |-> <<>>, \* sendMessage: the identity of the current invocation
     \* history of the job, for stating the properties
     gatewayCalls |-> 0,      \* sendMessage invocations begun
     checks |-> 0,            \* isRegisteredUser calls of the current invocation
     sends |-> 0,             \* client.sendMessage calls of the current invocation
     isRegistered |-> "none", \* answer of the current invocation's check
     sleeps |-> 0,            \* setTimeout sleeps of the job
     iterSleeps |-> 0,        \* sleeps of the current loop iteration
     randomDelay |-> 0]       \* seconds of the last sleep

\* most participants a platform answer lists
MaxParticipants == 2

\* The shapes of a participant: a plain string; an object whose id has
\* _serialized; an object whose id is a string; an object with _serialized
\* and no id; an object with neither.
ParticipantShapes == {"string", "nestedId", "plainId", "serialized", "noId"}

ParticipantLists == SeqsUpTo(ParticipantShapes, MaxParticipants)

Endpoints == {"groups", "groupContacts", "groupExport", "contacts", "contactsExport"}

IdleGet ==
    [pc |-> "idle",
     endpoint |-> "groups",
     ready |-> FALSE,         \* isClientReady as the handler read it
     status |-> 0,            \* status of the response, 0 while there is none
     success |-> FALSE,       \* result.success of the extractor
     named |-> TRUE,          \* chat.name is a string
     \* extractGroupContacts
     metadata |-> "none",     \* chat.groupMetadata.participants: absent, empty, some
     property |-> "none",     \* chat.participants: function, promise, value, absent
     defined |-> TRUE,        \* participants is neither undefined nor null
     participants |-> <<>>,
     k |-> 0,                 \* participants handled by the contact loop
     contacts |-> <<>>,
     participantCount |-> 0,
     \* history of the request, for stating the properties
     platformCalls |-> 0,     \* calls made on the client
     exportWrites |-> 0,      \* workbook.xlsx.writeFile calls
     tried |-> <<>>,          \* participant strategies attempted, in order
     source |-> "none"]       \* strategy whose list the contact loop walks

vars == <<isClientReady, job, get>>

SetJob(j, r) == job' = [job EXCEPT ![j] = r]

----------------------------------------------------------------------------
(* Platform connection lifecycle callbacks. *)

\* client.on('ready')
OnReady ==
    /\ isClientReady' = TRUE
    /\ UNCHANGED <<job, get>>

\* client.on('auth_failure')
OnAuthFailure ==
    /\ isClientReady' = FALSE
    /\ UNCHANGED <<job, get>>

\* client.on('disconnected'): clears the flag and re-initializes the client
OnDisconnected ==
    /\ isClientReady' = FALSE
    /\ UNCHANGED <<job, get>>

----------------------------------------------------------------------------
(* POST /api/send. *)

Respond(status) == [status |-> status, numbersCount |-> 0, mediaAttached |-> FALSE]

\* res.json({success: true, numbersCount, mediaAttached, ...})
Acknowledge(numbers, mediaPath) ==
    [status |-> 200, numbersCount |-> Len(numbers), mediaAttached |-> mediaPath]

\* (variant: the spreadsheet's numbers are merged with the parsed ones)
ResolveNumbersUnion(src) ==
    Dedupe((IF src.excel.present THEN extractNumbersFromExcel(src.excel) ELSE <<>>)
           \o parsePhoneNumbers(NoFile, src.numbers, src.numbersText))

\* Recipient resolution of the handler: the spreadsheet alone when one is
\* uploaded, else parsePhoneNumbers (whose req.file is never set by
\* upload.fields).
ResolveNumbers(src) ==
    IF src.excel.present
    THEN extractNumbersFromExcel(src.excel)
    ELSE parsePhoneNumbers(NoFile, src.numbers, src.numbersText)

\* The handler up to its first await (the spreadsheet read or the parse):
\* 400 without a message, 503 when not ready, 500 when req.files is undefined
\* (a body that is not multipart: req.files['excel'] throws into the catch).
HandleSend(j, requests) ==
    /\ job[j].pc = "idle"
    /\ \E req \in requests :
         LET r == [job[j] EXCEPT !.req = req, !.ready = isClientReady] IN
         IF ~req.message
         THEN SetJob(j, [r EXCEPT !.pc = "closed", !.res = Respond(400)])
         ELSE IF ~isClientReady
         THEN SetJob(j, [r EXCEPT !.pc = "closed", !.res = Respond(503)])
         ELSE IF ~req.multipart
         THEN SetJob(j, [r EXCEPT !.pc = "closed", !.res = Respond(500)])
         ELSE SetJob(j, [r EXCEPT !.pc = "resolving",
                                  !.delaySeconds = req.delaySeconds])
    /\ UNCHANGED <<isClientReady, get>>

\* a request arrives at slot j
SendRequest(j) == HandleSend(j, Requests)

\* (variant: the loop is entered before the acknowledgment is sent)
ResolvedWithoutAck(j) ==
    /\ job[j].pc = "resolving"
    /\ LET numbers == ResolveNumbers(job[j].req.src)
           r == [job[j] EXCEPT !.numbers = numbers]
       IN  IF Len(numbers) = 0
           THEN SetJob(j, [r EXCEPT !.pc = "closed", !.res = Respond(400)])
           ELSE SetJob(j, [r EXCEPT !.pc = "loop", !.mediaPath = r.req.media])
    /\ UNCHANGED <<isClientReady, get>>

\* The await resumes with the resolved numbers: 400 when there are none,
\* else the media path is taken and the acknowledgment sent; the dispatch
\* loop starts behind it.
Resolved(j) ==
    /\ job[j].pc = "resolving"
    /\ LET numbers == ResolveNumbers(job[j].req.src)
           r == [job[j] EXCEPT !.numbers = numbers]
       IN  IF Len(numbers) = 0
           THEN SetJob(j, [r EXCEPT !.pc = "closed", !.res = Respond(400)])
           ELSE SetJob(j, [r EXCEPT !.pc = "loop",
                                    !.mediaPath = r.req.media,
                                    !.res = Acknowledge(numbers, r.req.media)])
    /\ UNCHANGED <<isClientReady, get>>

\* Math.floor(Math.random() * (delaySeconds - 3 + 1)) + 3, with
\* Math.random() = r / RandRes and delaySeconds = ds / Scale
RandomDelay(ds, r) ==
    ((r * (ds - MinDelay * Scale + Scale)) \div (RandRes * Scale)) + MinDelay

\* i > 0 && delaySeconds > 3
DelayApplies(i, ds) == i > 0 /\ ds > MinDelay * Scale

\* "@c.us"
UserSuffix == <<"@", "c", ".", "u", "s">>

\* phoneNumber?.includes('@c.us') ? phoneNumber : `${phoneNumber}@c.us`
FormatNumber(phoneNumber) ==
    IF Includes(phoneNumber, UserSuffix) THEN phoneNumber ELSE phoneNumber \o UserSuffix

\* (variant: sendMessage is not awaited, so the call for the next recipient
\* is issued together with this one)
BeginSendMessageNoAwait(r) ==
    [r EXCEPT !.pc = "check",
              !.formattedNumber = FormatNumber(r.numbers[r.i + 1]),
              !.gatewayCalls = @ + (IF r.i + 1 < Len(r.numbers) THEN 2 ELSE 1),
              !.checks = 1,
              !.sends = 0,
              !.isRegistered = "pending"]

\* sendMessage entered: formattedNumber built, client.isRegisteredUser issued
BeginSendMessage(r) ==
    [r EXCEPT !.pc = "check",
              !.formattedNumber = FormatNumber(r.numbers[r.i + 1]),
              !.gatewayCalls = @ + 1,
              !.checks = 1,
              !.sends = 0,
              !.isRegistered = "pending"]

\* (variant: the loop looks at the readiness flag and stops when it is false)
LoopStepWhileReady(j) ==
    /\ job[j].pc = "loop"
    /\ IF job[j].i >= Len(job[j].numbers) \/ ~isClientReady
       THEN SetJob(j, [job[j] EXCEPT !.pc = "closed"])
       ELSE IF DelayApplies(job[j].i, job[j].delaySeconds)
       THEN \E r \in 0..(RandRes - 1) :
               SetJob(j, [job[j] EXCEPT !.pc = "sleep",
                                        !.sleeps = @ + 1,
                                        !.iterSleeps = 1,
                                        !.randomDelay = RandomDelay(job[j].delaySeconds, r)])
       ELSE SetJob(j, BeginSendMessage([job[j] EXCEPT !.iterSleeps = 0]))
    /\ UNCHANGED <<isClientReady, get>>

\* for (let i = 0; i < numbers.length; i++): the loop test, then either the
\* sleep or, without one, the call of sendMessage
LoopStep(j) ==
    /\ job[j].pc = "loop"
    /\ IF job[j].i >= Len(job[j].numbers)
       THEN SetJob(j, [job[j] EXCEPT !.pc = "closed"])
       ELSE IF DelayApplies(job[j].i, job[j].delaySeconds)
       THEN \E r \in 0..(RandRes - 1) :
               SetJob(j, [job[j] EXCEPT !.pc = "sleep",
                                        !.sleeps = @ + 1,
                                        !.iterSleeps = 1,
                                        !.randomDelay = RandomDelay(job[j].delaySeconds, r)])
       ELSE SetJob(j, BeginSendMessage([job[j] EXCEPT !.iterSleeps = 0]))
    /\ UNCHANGED <<isClientReady, get>>

\* the setTimeout of the sleep fires
Wake(j) ==
    /\ job[j].pc = "sleep"
    /\ SetJob(j, BeginSendMessage(job[j]))
    /\ UNCHANGED <<isClientReady, get>>

Outcome(phoneNumber, status) ==
    [success |-> (status = "sent"),
     phoneNumber |-> phoneNumber,
     status |-> status,
     error |-> IF status = "error" THEN "error.message" ELSE "undefined"]

\* (variant: a failed outcome ends the loop)
PushResultBreakOnFailure(r, status) ==
    [r EXCEPT !.pc = "loop",
              !.results = Append(@, Outcome(r.numbers[r.i + 1], status)),
              !.i = IF status = "sent" THEN @ + 1 ELSE Len(r.numbers)]

\* sendMessage returns; results.push(result); i++
PushResult(r, status) ==
    [r EXCEPT !.pc = "loop",
              !.results = Append(@, Outcome(r.numbers[r.i + 1], status)),
              !.i = @ + 1]

\* client.isRegisteredUser settles: rejected -> 'error'; false ->
\* 'not_registered'; true -> the media is loaded when there is one (a throw
\* gives 'error') and client.sendMessage is issued
IsRegisteredSettles(j) ==
    /\ job[j].pc = "check"
    /\ \E answer \in {"yes", "no", "threw"}, mediaLoads \in BOOLEAN :
         LET r == [job[j] EXCEPT !.isRegistered = answer] IN
         /\ mediaLoads \/ (answer = "yes" /\ job[j].mediaPath)
         /\ IF answer = "threw"
            THEN SetJob(j, PushResult(r, "error"))
            ELSE IF answer = "no"
            THEN SetJob(j, PushResult(r, "not_registered"))
            ELSE IF ~mediaLoads
            THEN SetJob(j, PushResult(r, "error"))
            ELSE SetJob(j, [r EXCEPT !.pc = "send", !.sends = 1])
    /\ UNCHANGED <<isClientReady, get>>

\* (variant: a rejected send is issued once more)
SendSettlesRetry(j) ==
    /\ job[j].pc = "send"
    /\ \E sent \in BOOLEAN :
         IF ~sent /\ job[j].sends < 2
         THEN SetJob(j, [job[j] EXCEPT !.sends = @ + 1])
         ELSE SetJob(j, PushResult(job[j], IF sent THEN "sent" ELSE "error"))
    /\ UNCHANGED <<isClientReady, get>>

\* client.sendMessage settles: resolved -> 'sent'; rejected -> 'error'
SendSettles(j) ==
    /\ job[j].pc = "send"
    /\ \E sent \in BOOLEAN :
         SetJob(j, PushResult(job[j], IF sent THEN "sent" ELSE "error"))
    /\ UNCHANGED <<isClientReady, get>>

\* the request slot is free again
Release(j) ==
    /\ job[j].pc = "closed"
    /\ SetJob(j, IdleJob)
    /\ UNCHANGED <<isClientReady, get>>

----------------------------------------------------------------------------
(* The readiness-gated GET endpoints and the directory extractor. *)

\* one more call on the client
PlatformCall(r) == [r EXCEPT !.platformCalls = @ + 1]

\* The handler after its extractor returned: plain endpoints answer with
\* the result; export endpoints answer 500 on a failed result or when the
\* file name cannot be built, else write the workbook.
AfterExtract(r) ==
    IF r.endpoint \in {"groups", "groupContacts", "contacts"}
    THEN [r EXCEPT !.pc = "closed", !.status = 200]
    ELSE IF ~r.success
    THEN [r EXCEPT !.pc = "closed", !.status = 500]
    ELSE IF r.endpoint = "groupExport" /\ ~r.named
    THEN [r EXCEPT !.pc = "closed", !.status = 500]
    ELSE [r EXCEPT !.pc = "write", !.exportWrites = @ + 1]

\* (variant: the handlers do not look at the readiness flag)
GetRequestUngated ==
    /\ get.pc = "idle"
    /\ \E e \in Endpoints :
         LET r == [get EXCEPT !.endpoint = e, !.ready = isClientReady] IN
         get' = PlatformCall([r EXCEPT !.pc =
                    IF e = "groups" THEN "chats"
                    ELSE IF e \in {"contacts", "contactsExport"} THEN "allContacts"
                    ELSE "chat"])
    /\ UNCHANGED <<isClientReady, job>>

\* A GET handler up to its first await: 503 when not ready, else the
\* extractor is entered and its first platform call issued (getChats,
\* getContacts or getChatById).
GetRequest ==
    /\ get.pc = "idle"
    /\ \E e \in Endpoints :
         LET r == [get EXCEPT !.endpoint = e, !.ready = isClientReady] IN
         IF ~isClientReady
         THEN get' = [r EXCEPT !.pc = "closed", !.status = 503]
         ELSE get' = PlatformCall([r EXCEPT !.pc =
                        IF e = "groups" THEN "chats"
                        ELSE IF e \in {"contacts", "contactsExport"} THEN "allContacts"
                        ELSE "chat"])
    /\ UNCHANGED <<isClientReady, job>>

\* extractAllGroups / extractAllContacts: getChats or getContacts settles
ListSettles ==
    /\ get.pc \in {"chats", "allContacts"}
    /\ \E ok \in BOOLEAN : get' = AfterExtract([get EXCEPT !.success = ok])
    /\ UNCHANGED <<isClientReady, job>>

\* workbook.xlsx.writeFile settles
WriteSettles ==
    /\ get.pc = "write"
    /\ \E ok \in BOOLEAN :
         get' = [get EXCEPT !.pc = "closed", !.status = IF ok THEN 200 ELSE 500]
    /\ UNCHANGED <<isClientReady, job>>

\* extractGroupContacts returns {success: false, error}
ExtractFails(r) == AfterExtract([r EXCEPT !.success = FALSE])

\* index of the first participant after position k that has an id, or
\* Len + 1 (those without are logged and skipped)
RECURSIVE NextWithId(_, _)
NextWithId(participants, k) ==
    IF k >= Len(participants) THEN Len(participants) + 1
    ELSE IF participants[k + 1] # "noId" THEN k + 1
    ELSE NextWithId(participants, k + 1)

\* for (const participant of participants): iterating undefined throws into
\* the outer catch; a participant with an id has client.getContactById
\* issued; after the last one the result is returned
ContactLoop(r) ==
    IF ~r.defined
    THEN ExtractFails(r)
    ELSE LET n == NextWithId(r.participants, r.k) IN
         IF n > Len(r.participants)
         THEN AfterExtract([r EXCEPT !.k = Len(r.participants),
                                     !.success = TRUE,
                                     !.participantCount = Len(r.participants)])
         ELSE PlatformCall([r EXCEPT !.pc = "contact", !.k = n - 1])

\* if (!participants || participants.length === 0): the raw evaluation is
\* issued; else the contact loop starts
AfterStandard(r) ==
    IF ~r.defined \/ Len(r.participants) = 0
    THEN PlatformCall([r EXCEPT !.pc = "raw", !.tried = Append(@, "raw")])
    ELSE ContactLoop(r)

\* client.getChatById settles: a throw fails the extraction; else the
\* metadata field is looked at, and without a participants array there
\* client.getGroupMetadata is issued
ChatSettles ==
    /\ get.pc = "chat"
    /\ \E ok \in BOOLEAN, metadata \in {"absent", "empty", "some"},
          property \in {"function", "promise", "value", "absent"},
          named \in BOOLEAN, list \in ParticipantLists \ {<<>>} :
         IF ~ok
         THEN get' = ExtractFails(get)
         ELSE LET r == [get EXCEPT !.metadata = metadata, !.property = property,
                                   !.named = named, !.tried = <<"metadata">>]
              IN  IF metadata = "some"
                  THEN get' = AfterStandard([r EXCEPT !.participants = list,
                                                      !.source = "metadata"])
                  ELSE IF metadata = "empty"
                  THEN get' = AfterStandard(r)
                  ELSE get' = PlatformCall([r EXCEPT !.pc = "fetch",
                                                     !.tried = Append(@, "fetch")])
    /\ UNCHANGED <<isClientReady, job>>

\* client.getGroupMetadata settles: its participants (or []) are taken; a
\* throw leads to the participants property, which is called when a
\* function, awaited when a promise, and left alone otherwise
FetchSettles ==
    /\ get.pc = "fetch"
    /\ \E ok \in BOOLEAN, list \in ParticipantLists :
         IF ok
         THEN get' = AfterStandard([get EXCEPT !.participants = list,
                                               !.source = IF list = <<>> THEN "none"
                                                          ELSE "fetch"])
         ELSE LET r == [get EXCEPT !.tried = Append(@, "property")] IN
              IF r.property = "function"
              THEN get' = PlatformCall([r EXCEPT !.pc = "property"])
              ELSE IF r.property = "promise"
              THEN get' = [r EXCEPT !.pc = "property"]
              ELSE get' = AfterStandard(r)
    /\ UNCHANGED <<isClientReady, job>>

\* chat.participants() / chat.participants settles: with a list, with
\* undefined, or with a throw (logged, participants stay [])
PropertySettles ==
    /\ get.pc = "property"
    /\ \E outcome \in {"list", "undefined", "threw"}, list \in ParticipantLists :
         /\ outcome = "list" \/ list = <<>>
         /\ IF outcome = "list"
            THEN get' = AfterStandard([get EXCEPT !.participants = list,
                                                  !.source = IF list = <<>> THEN "none"
                                                             ELSE "property"])
            ELSE IF outcome = "undefined"
            THEN get' = AfterStandard([get EXCEPT !.defined = FALSE])
            ELSE get' = AfterStandard(get)
    /\ UNCHANGED <<isClientReady, job>>

\* client.pupPage.evaluate settles: a non-empty rawData ({id: string, ...}
\* per participant) replaces participants; null, [] or a throw leave them
RawSettles ==
    /\ get.pc = "raw"
    /\ \E ok \in BOOLEAN, n \in 0..MaxParticipants :
         /\ ok \/ n = 0
         /\ IF ok /\ n > 0
            THEN get' = ContactLoop([get EXCEPT !.participants = [k \in 1..n |-> "plainId"],
                                                !.defined = TRUE,
                                                !.source = "raw"])
            ELSE get' = ContactLoop(get)
    /\ UNCHANGED <<isClientReady, job>>

\* client.getContactById settles: a contact gives a full record (name
\* 'Unknown' when it has neither name nor pushname); a throw gives the
\* degraded record built from participant.id?._serialized || participant.id
\* || participant, whose split throws for an object without id (nothing is
\* pushed then)
ContactSettles ==
    /\ get.pc = "contact"
    /\ \E outcome \in {"named", "unnamed", "threw"} :
         LET p == get.k + 1
             shape == get.participants[p]
             r == [get EXCEPT !.k = p]
         IN  IF outcome # "threw"
             THEN get' = ContactLoop([r EXCEPT !.contacts =
                            Append(@, [participant |-> p,
                                       name |-> IF outcome = "named" THEN "name"
                                                ELSE "Unknown",
                                       degraded |-> FALSE])])
             ELSE IF shape = "serialized"
             THEN get' = ContactLoop(r)
             ELSE get' = ContactLoop([r EXCEPT !.contacts =
                            Append(@, [participant |-> p, name |-> "Unknown",
                                       degraded |-> TRUE])])
    /\ UNCHANGED <<isClientReady, job>>

\* the GET slot is free again
ReleaseGet ==
    /\ get.pc = "closed"
    /\ get' = IdleGet
    /\ UNCHANGED <<isClientReady, job>>

----------------------------------------------------------------------------
(* Specification of the send pipeline. *)

Init ==
    /\ isClientReady = FALSE
    /\ job = [j \in JobIds |-> IdleJob]
    /\ get = IdleGet

Next ==
    \/ OnReady
    \/ OnAuthFailure
    \/ OnDisconnected
    \/ \E j \in DOMAIN job : SendRequest(j)
    \/ \E j \in DOMAIN job : Resolved(j)
    \/ \E j \in DOMAIN job : LoopStep(j)
    \/ \E j \in DOMAIN job : Wake(j)
    \/ \E j \in DOMAIN job : IsRegisteredSettles(j)
    \/ \E j \in DOMAIN job : SendSettles(j)
    \/ \E j \in DOMAIN job : Release(j)

Spec == Init /\ [][Next]_vars

----------------------------------------------------------------------------
(* Properties of POST /api/send. *)

\* the job of slot j has been acknowledged: its dispatch loop runs or has run
Accepted(j) == job[j].res.status = 200

\* the job of slot j has a sendMessage invocation in flight
InGateway(j) == job[j].pc \in {"check", "send"}

\* "15550001111" and "5550002222"
Digits15550001111 == <<"1", "5", "5", "5", "0", "0", "0", "1", "1", "1", "1">>
Digits5550002222 == RawPlain

DigitsOnly(n) == \A k \in 1..Len(n) : n[k] \in Digit

NoDuplicates(list) ==
    \A a, b \in 1..Len(list) : a # b => list[a] # list[b]

\* The status the precedence of the claim gives a request.
PrecedenceStatus(r) ==
    IF ~r.req.message THEN 400
    ELSE IF ~r.ready THEN 503
    ELSE IF Len(ResolveNumbers(r.req.src)) = 0 THEN 400
    ELSE 200

\* C1: every answered /api/send request has the status of the precedence
\* empty message -> 400, else not ready -> 503, else no recipient resolved ->
\* 400, else the acknowledgment; no other status is returned.
C1_Precedence ==
    \A j \in DOMAIN job :
        job[j].res.status # 0 => job[j].res.status = PrecedenceStatus(job[j])

\* C2: a job that has issued a gateway call has been acknowledged before,
\* with the recipient count and the media flag of the job; a request
\* answered 400 or 503 has issued no gateway call.
C2_AckBeforeGateway ==
    \A j \in DOMAIN job :
        /\ job[j].gatewayCalls > 0 =>
              /\ job[j].res.status = 200
              /\ job[j].res.numbersCount = Len(job[j].numbers)
              /\ job[j].res.mediaAttached = job[j].req.media
        /\ job[j].res.status \in {400, 503} => job[j].gatewayCalls = 0

\* C2 witness: an acknowledged job with a media file has its first
\* registration check in flight.
C2_Witness ==
    \E j \in DOMAIN job :
        /\ job[j].pc = "check"
        /\ job[j].gatewayCalls = 1
        /\ job[j].res = [status |-> 200, numbersCount |-> 2, mediaAttached |-> TRUE]

\* C3: no sleep precedes the first send; with delaySeconds <= 3 the job
\* never sleeps; with delaySeconds > 3 exactly one sleep precedes every send
\* after the first, of d whole seconds with 3 <= d <= delaySeconds.
C3_Sleeps ==
    \A j \in DOMAIN job :
        /\ job[j].i = 0 => job[j].sleeps = 0
        /\ job[j].delaySeconds <= MinDelay * Scale => job[j].sleeps = 0
        /\ (job[j].delaySeconds > MinDelay * Scale /\ InGateway(j)) =>
              job[j].sleeps = job[j].i
        /\ (job[j].delaySeconds > MinDelay * Scale /\ InGateway(j) /\ job[j].i > 0) =>
              /\ job[j].iterSleeps = 1
              /\ job[j].randomDelay >= MinDelay
              /\ job[j].randomDelay * Scale <= job[j].delaySeconds

\* C4: the recipient list of an accepted job has no duplicate and no empty
\* string.
C4_NoDuplicates ==
    \A j \in DOMAIN job :
        Accepted(j) =>
            /\ NoDuplicates(job[j].numbers)
            /\ \A k \in 1..Len(job[j].numbers) : job[j].numbers[k] # <<>>

\* the request names the example text block and no other source
ExampleOnly(src) ==
    ~src.excel.present /\ ~src.numbers.isArray /\ src.numbersText = ExampleText

\* an optional leading '+', then MinDigits to MaxDigits digits
PlusThenDigits(n) ==
    LET body == IF n # <<>> /\ n[1] = "+" THEN SubSeq(n, 2, Len(n)) ELSE n
    IN  DigitsOnly(body) /\ Len(body) \in MinDigits..MaxDigits

\* C5 (as claimed): every recipient of an accepted job is digits-only, and
\* the example text yields exactly {"15550001111", "5550002222"}.
C5_DigitsOnly ==
    \A j \in DOMAIN job :
        Accepted(j) =>
            /\ \A k \in 1..Len(job[j].numbers) : DigitsOnly(job[j].numbers[k])
            /\ ExampleOnly(job[j].req.src) =>
                  Range(job[j].numbers) = {Digits15550001111, Digits5550002222}

\* C5 (amended): without a spreadsheet every recipient of an accepted job is
\* a non-empty digits-only string, and the example text yields exactly
\* {"15550001111", "5550002222"}; with a spreadsheet every recipient is an
\* optional leading '+' followed by 10 to 15 digits.
C5_DigitsOnlyUnlessSpreadsheet ==
    \A j \in DOMAIN job :
        Accepted(j) =>
            /\ ~job[j].req.src.excel.present =>
                  \A k \in 1..Len(job[j].numbers) :
                      job[j].numbers[k] # <<>> /\ DigitsOnly(job[j].numbers[k])
            /\ job[j].req.src.excel.present =>
                  \A k \in 1..Len(job[j].numbers) : PlusThenDigits(job[j].numbers[k])
            /\ ExampleOnly(job[j].req.src) =>
                  Range(job[j].numbers) = {Digits15550001111, Digits5550002222}

\* C5 witness: the gateway is invoked for a spreadsheet recipient that
\* starts with '+'.
C5_Witness ==
    \E j \in DOMAIN job :
        /\ Accepted(j)
        /\ job[j].pc = "check"
        /\ job[j].req.src.excel.present
        /\ job[j].numbers[job[j].i + 1] = RawPlus

\* The valid numbers of each of the three sources.
ListNumbers(src) ==
    IF src.numbers.isArray
    THEN {StripNonDigits(Trim(c)) : c \in Range(src.numbers.v)} \ {<<>>}
    ELSE {}

TextNumbers(src) ==
    {StripNonDigits(Trim(c)) : c \in Range(SplitText(src.numbersText))} \ {<<>>}

SheetNumbers(src) ==
    IF src.excel.present /\ src.excel.readable
    THEN {n \in {Trim(CellToString(c)) :
                    c \in {d \in Range(DataRows(src.excel)) : d.t \in {"string", "number"}}} :
            PlusThenDigits(n)}
    ELSE {}

\* C6 (as claimed): every valid number of the explicit list, of the text
\* block and of the spreadsheet is a recipient of the accepted job.
C6_Union ==
    \A j \in DOMAIN job :
        Accepted(j) =>
            (ListNumbers(job[j].req.src) \cup TextNumbers(job[j].req.src)
                \cup SheetNumbers(job[j].req.src)) \subseteq Range(job[j].numbers)

\* C6 (amended): with a spreadsheet the recipients of an accepted job are
\* exactly the spreadsheet's valid numbers (the list and the text block are
\* ignored); without one they are exactly the valid numbers of the list and
\* of the text block together.
C6_SpreadsheetOrUnion ==
    \A j \in DOMAIN job :
        Accepted(j) =>
            Range(job[j].numbers) =
                IF job[j].req.src.excel.present
                THEN SheetNumbers(job[j].req.src)
                ELSE ListNumbers(job[j].req.src) \cup TextNumbers(job[j].req.src)

\* C6 witness: a job runs for a request with all three sources, and a
\* number of the text block is not among its recipients.
C6_Witness ==
    \E j \in DOMAIN job :
        /\ Accepted(j)
        /\ InGateway(j)
        /\ job[j].req.src.excel.present
        /\ job[j].req.src.numbers.isArray
        /\ job[j].req.src.numbersText = ExampleText
        /\ Digits15550001111 \notin Range(job[j].numbers)

\* the dispatch loop of slot j has ended
LoopEnded(j) == Accepted(j) /\ job[j].pc = "closed"

\* C7: the outcomes so far are, position by position, the outcomes of the
\* first recipients (one per position, phoneNumber the recipient's); the
\* gateway has been invoked once for each of them, and once more while an
\* invocation is in flight, whatever the earlier outcomes were; when the
\* loop has ended there is one outcome for every recipient.
C7_OutcomesAligned ==
    \A j \in DOMAIN job :
        /\ Len(job[j].results) = job[j].i
        /\ Len(job[j].results) <= Len(job[j].numbers)
        /\ \A k \in 1..Len(job[j].results) :
              job[j].results[k].phoneNumber = job[j].numbers[k]
        /\ job[j].gatewayCalls =
              Len(job[j].results) + (IF InGateway(j) THEN 1 ELSE 0)
        /\ LoopEnded(j) => Len(job[j].results) = Len(job[j].numbers)

\* C7 witness: a loop has ended whose first outcome failed and whose second
\* recipient has its outcome.
C7_Witness ==
    \E j \in DOMAIN job :
        /\ LoopEnded(j)
        /\ Len(job[j].results) = 2
        /\ ~job[j].results[1].success
        /\ job[j].results[2].success

\* C8: an invocation of sendMessage makes one registration check and at
\* most one platform send; 'sent' only after a positive check and one send,
\* 'not_registered' after a negative check and no send, 'error' when the
\* check throws (no send); every recorded outcome has a status among sent,
\* not_registered, error, success exactly when sent, and an error
\* description exactly when error.
C8_OneOutcomePerInvocation ==
    \A j \in DOMAIN job :
        /\ job[j].checks <= 1 /\ job[j].sends <= 1
        /\ InGateway(j) => job[j].checks = 1
        /\ \A k \in 1..Len(job[j].results) :
              LET o == job[j].results[k] IN
              /\ o.status \in {"sent", "not_registered", "error"}
              /\ o.success <=> (o.status = "sent")
              /\ (o.error # "undefined") <=> (o.status = "error")
        /\ (job[j].pc \in {"loop", "sleep", "closed"} /\ job[j].i > 0) =>
              LET o == job[j].results[job[j].i] IN
              /\ job[j].checks = 1
              /\ o.status = "sent" => (job[j].isRegistered = "yes" /\ job[j].sends = 1)
              /\ o.status = "not_registered" =>
                    (job[j].isRegistered = "no" /\ job[j].sends = 0)
              /\ job[j].isRegistered = "no" => o.status = "not_registered"
              /\ job[j].isRegistered = "threw" => (o.status = "error" /\ job[j].sends = 0)
              /\ (job[j].isRegistered = "yes" /\ job[j].sends = 1) =>
                    o.status \in {"sent", "error"}

\* C8 witness: a job with a media file has recorded 'not_registered' for
\* its first recipient and 'sent', after one check and one send, for its
\* second.
C8_Witness ==
    \E j \in DOMAIN job :
        /\ job[j].pc = "loop"
        /\ job[j].mediaPath
        /\ Len(job[j].results) = 2
        /\ job[j].results[1].status = "not_registered"
        /\ job[j].results[2].status = "sent"
        /\ job[j].checks = 1 /\ job[j].sends = 1

----------------------------------------------------------------------------
(* Specification of the GET endpoints. *)

NextGet ==
    \/ OnReady
    \/ OnAuthFailure
    \/ OnDisconnected
    \/ GetRequest
    \/ ListSettles
    \/ WriteSettles
    \/ ChatSettles
    \/ FetchSettles
    \/ PropertySettles
    \/ RawSettles
    \/ ContactSettles
    \/ ReleaseGet

SpecGet == Init /\ [][NextGet]_vars

----------------------------------------------------------------------------
(* Properties of the GET endpoints and of extractGroupContacts. *)

\* a request handled while the flag was false is answered 503 and has made
\* no platform call and no export write
NotReadyIs503 ==
    (get.pc # "idle" /\ ~get.ready) =>
        /\ get.status = 503
        /\ get.pc = "closed"
        /\ get.platformCalls = 0
        /\ get.exportWrites = 0

\* a step that changes the flag is a step of a lifecycle callback
OnlyLifecycleWrites ==
    isClientReady' # isClientReady => (OnReady \/ OnAuthFailure \/ OnDisconnected)

\* C9: a GET request to any of the five gated endpoints that is handled
\* while isClientReady is false is answered 503 without any platform call or
\* export write, and isClientReady is changed only by the ready,
\* auth_failure and disconnected callbacks.
C9_GatedByReadiness == []NotReadyIs503 /\ [][OnlyLifecycleWrites]_vars

\* C9 witness: an export request was answered 503 while the flag was false,
\* and the flag has become true since.
C9_Witness ==
    /\ get.endpoint = "groupExport"
    /\ get.status = 503
    /\ ~get.ready
    /\ isClientReady

\* a is attempted before b in the log of strategies
TriedBefore(a, b) ==
    \E m, n \in 1..Len(get.tried) : m < n /\ get.tried[m] = a /\ get.tried[n] = b

\* the fixed order of the strategies
StrategyRank(x) ==
    IF x = "metadata" THEN 1 ELSE IF x = "fetch" THEN 2
    ELSE IF x = "property" THEN 3 ELSE 4

\* C10: the strategies are attempted in the order metadata field, fetch,
\* participants property, raw evaluation; with metadata participants
\* present the fetch is never invoked; with them absent and a fetch that
\* yields participants the fetched list is used and nothing further is
\* attempted; with the metadata field absent and a fetch that yields none,
\* the property is attempted before the raw evaluation is.
C10_FallbackOrder ==
    /\ \A m, n \in 1..Len(get.tried) :
          m < n => StrategyRank(get.tried[m]) < StrategyRank(get.tried[n])
    /\ get.metadata = "some" => get.tried = <<"metadata">>
    /\ get.source = "fetch" => get.tried = <<"metadata", "fetch">>
    /\ (get.metadata = "absent" /\ "raw" \in Range(get.tried)) =>
          TriedBefore("property", "raw")

\* the participants whose contact record is in the returned list
Listed == {get.contacts[c].participant : c \in 1..Len(get.contacts)}

\* C11: when extractGroupContacts succeeds, every enumerated participant
\* that is a plain string, an object with a nested id or an object with a
\* serialized field has a record in the returned contacts, a full one or,
\* after a failed contact fetch, a degraded one named "Unknown"; with only
\* such participants the list has participantCount entries.
C11_NoParticipantDropped ==
    get.success =>
        /\ \A p \in 1..Len(get.participants) :
              get.participants[p] # "noId" => p \in Listed
        /\ \A c \in 1..Len(get.contacts) :
              get.contacts[c].degraded => get.contacts[c].name = "Unknown"
        /\ "noId" \notin Range(get.participants) =>
              Len(get.contacts) = get.participantCount

----------------------------------------------------------------------------
(* Specification of two /api/send requests handled at the same time. *)

ConcJobs == {1, 2}

\* The requests of the concurrent jobs: multipart, with a message, without
\* media, the default or a 5 s delay, and one or two recipients.
ConcRequests ==
    {r \in Requests :
        /\ r.multipart /\ r.message /\ ~r.media
        /\ r.delaySeconds \in {Scale, 5 * Scale}
        /\ r.src \in {[excel |-> NoFile, numbers |-> AbsentNumbers,
                       numbersText |-> ExampleText],
                      [excel |-> NoFile,
                       numbers |-> [isArray |-> TRUE, v |-> <<RawPlain>>],
                       numbersText |-> <<>>]}}

InitConc ==
    /\ isClientReady = FALSE
    /\ job = [j \in ConcJobs |-> IdleJob]
    /\ get = IdleGet

NextConc ==
    \/ OnReady
    \/ OnAuthFailure
    \/ OnDisconnected
    \/ \E j \in DOMAIN job : HandleSend(j, ConcRequests)
    \/ \E j \in DOMAIN job : Resolved(j)
    \/ \E j \in DOMAIN job : LoopStep(j)
    \/ \E j \in DOMAIN job : Wake(j)
    \/ \E j \in DOMAIN job : IsRegisteredSettles(j)
    \/ \E j \in DOMAIN job : SendSettles(j)
    \/ \E j \in DOMAIN job : Release(j)

SpecConc == InitConc /\ [][NextConc]_vars

\* sendMessage invocations of slot j that have not returned
InFlight(j) == job[j].gatewayCalls - Len(job[j].results)

\* a job has at most one invocation in flight, and it is the one for the
\* recipient after those that have their outcome
OneInFlight ==
    \A j \in DOMAIN job :
        /\ InFlight(j) \in {0, 1}
        /\ InFlight(j) = 1 =>
              /\ InGateway(j)
              /\ job[j].formattedNumber = job[j].numbers[job[j].gatewayCalls] \o UserSuffix

\* a step that issues a gateway call of a job issues exactly the next one,
\* after every earlier call of the job has returned its outcome
IssuedInOrder ==
    \A j \in DOMAIN job :
        job'[j].gatewayCalls > job[j].gatewayCalls =>
            /\ job[j].gatewayCalls = Len(job[j].results)
            /\ job'[j].gatewayCalls = job[j].gatewayCalls + 1
            /\ job'[j].results = job[j].results
            /\ job'[j].formattedNumber =
                  job[j].numbers[Len(job[j].results) + 1] \o UserSuffix

\* C12: with two jobs running at once, each job has at most one gateway
\* call in flight and issues its calls one by one in the order of its
\* recipient list, each only after the one before has returned its outcome
\* (across the jobs the calls are not ordered: see the witness).
C12_SequentialWithinJob == []OneInFlight /\ [][IssuedInOrder]_vars

\* C12 witness: both jobs have a gateway call in flight at once, the first
\* for its second recipient and the second for its first.
C12_Witness ==
    /\ DOMAIN job = ConcJobs
    /\ InGateway(1) /\ job[1].gatewayCalls = 2
    /\ InGateway(2) /\ job[2].gatewayCalls = 1

----------------------------------------------------------------------------
(* Specification of the send pipeline in which every platform call settles, *)
(* every timer fires and every resumed handler runs.                        *)

\* a step of the dispatch loop of slot j: the loop test, a timer firing, a
\* platform call settling
JobStep(j) ==
    \/ LoopStep(j)
    \/ Wake(j)
    \/ IsRegisteredSettles(j)
    \/ SendSettles(j)

\* The requests of this specification: multipart, with or without message
\* and media, the default or a 5 s delay, and two, one or no valid recipients.
LiveRequests ==
    {r \in Requests :
        /\ r.multipart
        /\ r.delaySeconds \in {Scale, 5 * Scale}
        /\ r.src \in {[excel |-> NoFile, numbers |-> AbsentNumbers,
                       numbersText |-> ExampleText],
                      [excel |-> NoFile,
                       numbers |-> [isArray |-> TRUE, v |-> <<RawPlain>>],
                       numbersText |-> <<>>],
                      [excel |-> NoFile,
                       numbers |-> [isArray |-> TRUE, v |-> <<RawShort>>],
                       numbersText |-> <<>>]}}

NextLive ==
    \/ OnReady
    \/ OnAuthFailure
    \/ OnDisconnected
    \/ \E j \in DOMAIN job : HandleSend(j, LiveRequests)
    \/ \E j \in DOMAIN job : Resolved(j)
    \/ \E j \in DOMAIN job : LoopStep(j)
    \/ \E j \in DOMAIN job : Wake(j)
    \/ \E j \in DOMAIN job : IsRegisteredSettles(j)
    \/ \E j \in DOMAIN job : SendSettles(j)
    \/ \E j \in DOMAIN job : Release(j)

SpecLive == Init /\ [][NextLive]_vars /\ \A j \in JobIds : WF_vars(JobStep(j))

\* the loop of slot j has ended with the gateway invoked, and an outcome
\* recorded, for every recipient
Completed(j) ==
    /\ LoopEnded(j)
    /\ job[j].gatewayCalls = Len(job[j].numbers)
    /\ Len(job[j].results) = Len(job[j].numbers)

\* a step of an accepted job that has recipients left goes on to the sleep
\* or to the gateway call, also when the flag is false and whatever the
\* outcomes so far
NeverCancelled ==
    \A j \in DOMAIN job :
        (Accepted(j) /\ job[j].pc = "loop" /\ job[j].i < Len(job[j].numbers)
            /\ job'[j] # job[j]) =>
                /\ job'[j].pc \in {"sleep", "check"}
                /\ job'[j].numbers = job[j].numbers

\* C13: an accepted job eventually ends its loop having invoked the gateway
\* for every recipient, given that every platform call settles; no step of
\* the loop ends it early, whether the flag has become false or sends have
\* failed.
C13_RunsToCompletion ==
    /\ \A j \in JobIds : Accepted(j) ~> Completed(j)
    /\ [][NeverCancelled]_vars

\* C13 witness: the flag is false, the first recipient's outcome is a
\* failure, and the gateway call for the second recipient is in flight.
C13_Witness ==
    \E j \in DOMAIN job :
        /\ ~isClientReady
        /\ job[j].pc = "check"
        /\ job[j].i = 1
        /\ ~job[j].results[1].success

====
